---- MODULE Spec2Model ----
(***************************************************************************)
(* Query tools of the LikeC4 MCP server:                                   *)
(*   find-relationship-paths  (breadth-first multi-hop path search)        *)
(*   query-incomers-graph     (breadth-first upstream closure)             *)
(*   query-graph              (one-hop hierarchy and relationship queries) *)
(*   query-by-tags            (entities by tag conditions)                 *)
(*   query-by-metadata        (entities by metadata key and value)         *)
(* The model snapshot (elements, hierarchy, relationships) is immutable;   *)
(* every tool call owns its queue, visited set and accumulators.           *)
(***************************************************************************)
EXTENDS Integers, Sequences, FiniteSets, TLC

VARIABLES Rels, pc, tool, args, maxDepth, maxNodes, filter, queue,
          foundPaths, visited, nodes, actualMaxDepth, truncated, result, error,
          universe, results, idx, examined, calls

vars == <<Rels, pc, tool, args, maxDepth, maxNodes, filter, queue,
          foundPaths, visited, nodes, actualMaxDepth, truncated, result, error,
          universe, results, idx, examined, calls>>

(***************************************************************************)
(* Bounds of the explored inputs.                                          *)
(***************************************************************************)
\* longest relationship list of the exhaustively enumerated snapshots
MaxRels == 3
\* number of parallel relationships of the "fan" snapshot (above maxPaths)
FanSize == 101
\* longest relationship list of the snapshots on which calls of all the
\* traversal tools, with arguments of any size, are explored
MaxSmallRels == 2

(***************************************************************************)
(* The model snapshot: elements with FQN ids, hierarchy, relationships.    *)
(***************************************************************************)
Elements == {"a", "a.b", "c", "d"}

\* an id that does not resolve in the snapshot
UnknownId == "zzz"

Ids == Elements \cup {UnknownId}

\* model.findElement(id): the element, or nothing when the id is unknown
FindElement(id) == id \in Elements

\* the hierarchy follows the dot-separated FQN: "a.b" is the child of "a"
Ancestors(id) == IF id = "a.b" THEN {"a"} ELSE {}

Descendants(id) == {e \in Elements : id \in Ancestors(e)}

IsAncestorOf(a, b) == a \in Ancestors(b)

\* endpoints a relationship of the snapshot may have: two different elements
\* that are not in an ancestor/descendant relation
Endpoints ==
    {r \in [source : Elements, target : Elements] :
        /\ r.source # r.target
        /\ r.source \notin Ancestors(r.target)
        /\ r.target \notin Ancestors(r.source)}

\* n parallel relationships c -> d
Fan(n) == [i \in 1..n |-> [source |-> "c", target |-> "d"]]

\* the snapshots explored: every relationship list of at most MaxRels entries
Snapshots == UNION {[1..n -> Endpoints] : n \in 0..MaxRels}

\* every list of at most MaxSmallRels relationships
SmallSnapshots == UNION {[1..n -> Endpoints] : n \in 0..MaxSmallRels}

\* every list of at most MaxSmallRels relationships between any two
\* elements: self-loops and relationships between an element and its
\* ancestor included
LoopySnapshots ==
    UNION {[1..n -> [source : Elements, target : Elements]] : n \in 0..MaxSmallRels}

\* the numbers of the relationships, in model order
RelNumbers == [i \in 1..Len(Rels) |-> i]

\* element.outgoing(filter): relationships leaving id; 'all' also attributes
\* to id the relationships of its descendants that leave id's subtree
Outgoing(id, f) ==
    LET Test(i) == \/ Rels[i].source = id
                   \/ /\ f = "all"
                      /\ Rels[i].source \in Descendants(id)
                      /\ Rels[i].target \notin Descendants(id) \cup {id}
    IN SelectSeq(RelNumbers, Test)

\* element.incoming(filter): relationships entering id, symmetric to Outgoing
Incoming(id, f) ==
    LET Test(i) == \/ Rels[i].target = id
                   \/ /\ f = "all"
                      /\ Rels[i].target \in Descendants(id)
                      /\ Rels[i].source \notin Descendants(id) \cup {id}
    IN SelectSeq(RelNumbers, Test)

(***************************************************************************)
(* Values shared by the tools.                                             *)
(***************************************************************************)
\* an optional argument: <<>> when omitted, <<v>> when supplied
Undefined == <<>>

NoResult == [paths |-> <<>>, kind |-> "none"]

Min(x, y) == IF x <= y THEN x ELSE y

Max(x, y) == IF x >= y THEN x ELSE y

(***************************************************************************)
(* find-relationship-paths                                                 *)
(***************************************************************************)
maxPaths == 100

\* maxDepth values a caller supplies (omitted, in range, above the maximum)
PathDepthArgs == {Undefined, <<1>>, <<2>>, <<6>>}

\* maxDepth values a caller supplies when nothing refuses a value outside
\* the documented range 1..5
PathDepthInputs == {Undefined, <<0>>, <<1>>, <<5>>, <<6>>}

\* mutant: the default is applied, the cap is not
EffectiveMaxDepth_NoCap(a) == IF a = Undefined THEN 3 ELSE a[1]

\* Math.min(args.maxDepth ?? 3, 5)
EffectiveMaxDepth(a) == Min(IF a = Undefined THEN 3 ELSE a[1], 5)

\* mutant: the ancestor/descendant test is missing
ValidatePaths_NoAncestorTest(sourceId, targetId) ==
    IF ~FindElement(sourceId) THEN "NotFound"
    ELSE IF ~FindElement(targetId) THEN "NotFound"
    ELSE IF sourceId = targetId THEN "InvalidArgument"
    ELSE "ok"

\* mutant: the target is not looked up
ValidatePaths_SourceOnly(sourceId, targetId) ==
    IF ~FindElement(sourceId) THEN "NotFound"
    ELSE IF sourceId = targetId THEN "InvalidArgument"
    ELSE IF IsAncestorOf(sourceId, targetId) \/ IsAncestorOf(targetId, sourceId)
         THEN "InvalidArgument"
    ELSE "ok"

\* the validation before the search: the first failing invariant, or "ok"
ValidatePaths(sourceId, targetId) ==
    IF ~FindElement(sourceId) THEN "NotFound"
    ELSE IF ~FindElement(targetId) THEN "NotFound"
    ELSE IF sourceId = targetId THEN "InvalidArgument"
    ELSE IF IsAncestorOf(sourceId, targetId) \/ IsAncestorOf(targetId, sourceId)
         THEN "InvalidArgument"
    ELSE "ok"

\* mutant: > for >=
ReachedMaxDepth_OffByOne(current, d) == Len(current.path) > d

\* current.path.length >= maxDepth
ReachedMaxDepth(current, d) == Len(current.path) >= d

\* mutant: only the element being expanded counts as visited
AlreadyVisited_OnlyCurrent(current, nextId) == nextId = current.elementId

\* current.visited.has(nextId)
AlreadyVisited(current, nextId) == nextId \in current.visited

\* the PathStep stored for relationship number rel
PathStep(rel) == [source |-> Rels[rel].source, target |-> Rels[rel].target, rel |-> rel]

\* mutant: break for continue after a completed path, so the relationships
\* behind the first one that reaches the target are not looked at
ExploreOutgoing_BreakOnHit(current, rels, q, found, targetId) ==
    LET Hit(rel) == Rels[rel].target = targetId
        hitsAt == {i \in 1..Len(rels) : Hit(rels[i])}
        last == IF hitsAt = {} THEN Len(rels)
                ELSE CHOOSE i \in hitsAt : \A j \in hitsAt : i <= j
        seen == SubSeq(rels, 1, last)
        Go(rel) == ~Hit(rel) /\ ~AlreadyVisited(current, Rels[rel].target)
        hits == SelectSeq(seen, Hit)
        goes == SelectSeq(seen, Go)
    IN [foundPaths |-> found \o
            [i \in 1..Len(hits) |->
                [length |-> Len(current.path) + 1,
                 steps |-> Append(current.path, PathStep(hits[i]))]],
        queue |-> q \o
            [i \in 1..Len(goes) |->
                [elementId |-> Rels[goes[i]].target,
                 path |-> Append(current.path, PathStep(goes[i])),
                 visited |-> current.visited \cup {Rels[goes[i]].target}]]]

\* the for loop over currentElement.outgoing(): a relationship that reaches
\* the target completes a path, one that revisits an element of this path is
\* dropped, every other one enqueues a longer branch
ExploreOutgoing(current, rels, q, found, targetId) ==
    LET Hit(rel) == Rels[rel].target = targetId
        Go(rel) == ~Hit(rel) /\ ~AlreadyVisited(current, Rels[rel].target)
        hits == SelectSeq(rels, Hit)
        goes == SelectSeq(rels, Go)
    IN [foundPaths |-> found \o
            [i \in 1..Len(hits) |->
                [length |-> Len(current.path) + 1,
                 steps |-> Append(current.path, PathStep(hits[i]))]],
        queue |-> q \o
            [i \in 1..Len(goes) |->
                [elementId |-> Rels[goes[i]].target,
                 path |-> Append(current.path, PathStep(goes[i])),
                 visited |-> current.visited \cup {Rels[goes[i]].target}]]]

\* the paths of s that have length n, in their order in s
OfLength(s, n) == LET Is(p) == p.length = n IN SelectSeq(s, Is)

RECURSIVE SortFrom(_, _, _)
\* the paths of length n..last, shorter ones first, equal ones in their order
SortFrom(s, n, last) ==
    IF n > last THEN <<>> ELSE OfLength(s, n) \o SortFrom(s, n + 1, last)

\* mutant: the comparator reversed, b.length - a.length
SortByLength_Descending(s) ==
    LET a == SortFrom(s, 0, 5) IN [i \in 1..Len(a) |-> a[Len(a) + 1 - i]]

\* foundPaths.sort((a, b) => a.length - b.length), a stable sort
SortByLength(s) == SortFrom(s, 0, 5)

\* the handler up to the loop: resolve, validate, seed the queue
FindRelationshipPaths(sourceId, targetId, argMaxDepth) ==
    /\ pc = "idle"
    /\ tool' = "find-relationship-paths"
    /\ args' = [sourceId |-> sourceId, targetId |-> targetId, maxDepth |-> argMaxDepth]
    /\ LET v == ValidatePaths(sourceId, targetId)
       IN IF v # "ok"
          THEN /\ pc' = "error"
               /\ error' = v
               /\ UNCHANGED <<maxDepth, queue>>
          ELSE /\ pc' = "loop"
               /\ maxDepth' = EffectiveMaxDepth(argMaxDepth)
               /\ queue' = <<[elementId |-> sourceId, path |-> <<>>, visited |-> {sourceId}]>>
               /\ UNCHANGED error
    /\ UNCHANGED <<Rels, maxNodes, filter, foundPaths, visited, nodes,
                   actualMaxDepth, truncated, result>>
    /\ UNCHANGED <<universe, results, idx, examined, calls>>

\* one iteration of while (queue.length > 0 && foundPaths.length < maxPaths)
PathsIterate ==
    /\ pc = "loop"
    /\ tool = "find-relationship-paths"
    /\ queue # <<>>
    /\ Len(foundPaths) < maxPaths
    /\ LET current == Head(queue)
       IN IF ReachedMaxDepth(current, maxDepth)
          THEN /\ queue' = Tail(queue)
               /\ UNCHANGED foundPaths
          ELSE IF ~FindElement(current.elementId)
          THEN /\ queue' = Tail(queue)
               /\ UNCHANGED foundPaths
          ELSE LET r == ExploreOutgoing(current, Outgoing(current.elementId, "all"),
                                        Tail(queue), foundPaths, args.targetId)
               IN /\ queue' = r.queue
                  /\ foundPaths' = r.foundPaths
    /\ UNCHANGED <<Rels, pc, tool, args, maxDepth, maxNodes, filter, visited, nodes,
                   actualMaxDepth, truncated, result, error>>
    /\ UNCHANGED <<universe, results, idx, examined, calls>>

\* the loop has ended: sort and return
PathsReturn ==
    /\ pc = "loop"
    /\ tool = "find-relationship-paths"
    /\ ~(queue # <<>> /\ Len(foundPaths) < maxPaths)
    /\ pc' = "done"
    /\ result' = [paths |-> SortByLength(foundPaths), kind |-> "paths"]
    /\ UNCHANGED <<Rels, tool, args, maxDepth, maxNodes, filter, queue, foundPaths,
                   visited, nodes, actualMaxDepth, truncated, error>>
    /\ UNCHANGED <<universe, results, idx, examined, calls>>

(***************************************************************************)
(* query-incomers-graph                                                    *)
(***************************************************************************)
\* maxDepth and maxNodes values a caller supplies
GraphDepthArgs == {1, 101}

GraphNodesArgs == {1, 3, 5001}

\* maxDepth and maxNodes values a caller supplies when nothing refuses a
\* value outside the documented ranges 1..100 and 1..5000
GraphDepthInputs == {0, 1, 100, 101}

GraphNodesInputs == {0, 1, 5000, 5001}

\* Math.min(args.maxDepth, 100)
GraphMaxDepth(a) == Min(a, 100)

\* Math.min(args.maxNodes, 5000)
GraphMaxNodes(a) == Min(a, 5000)

\* args.includeIndirect ? 'all' : 'direct'
FilterOf(includeIndirect) == IF includeIndirect THEN "all" ELSE "direct"

\* mutant: the oldest entry is read but stays in the queue
Shift_Keep(q) == [item |-> Head(q), rest |-> q]

\* mutant: queue.pop(), the newest entry first
Shift_Pop(q) == [item |-> q[Len(q)], rest |-> SubSeq(q, 1, Len(q) - 1)]

\* queue.shift(): the oldest entry, and the queue left without it
Shift(q) == [item |-> Head(q), rest |-> Tail(q)]

\* mutant: entries beyond the depth limit are not skipped
BeyondDepth_Never(depth, d) == FALSE

\* depth > maxDepth
BeyondDepth(depth, d) == depth > d

\* mutant: > for >=, one node too many
NodeLimitReached_OffByOne(v, n) == Cardinality(v) > n

\* mutant: the entity about to be added is counted before it is added
NodeLimitReached_Early(v, n) == Cardinality(v) + 1 >= n

\* visited.size >= maxNodes
NodeLimitReached(v, n) == Cardinality(v) >= n

\* incomersData: the literal source id of every incoming relationship
IncomersData(id, f) ==
    LET inc == Incoming(id, f) IN [i \in 1..Len(inc) |-> Rels[inc[i]].source]

\* mutant: the incomers are enqueued at the depth of the node itself
PushIncomers_SameDepth(q, incomers, v, depth) ==
    LET New(id) == id \notin v
        new == SelectSeq(incomers, New)
    IN q \o [i \in 1..Len(new) |-> [elementId |-> new[i], depth |-> depth]]

\* the for loop that enqueues, at depth + 1, the incomers not visited yet
PushIncomers(q, incomers, v, depth) ==
    LET New(id) == id \notin v
        new == SelectSeq(incomers, New)
    IN q \o [i \in 1..Len(new) |-> [elementId |-> new[i], depth |-> depth + 1]]

\* the value returned by the handler
GraphResult(t, v, d, tr, n) ==
    [target |-> t, totalNodes |-> Cardinality(v), maxDepth |-> d,
     truncated |-> tr, nodes |-> n, kind |-> "graph"]

\* the handler up to the loop: resolve the element, clamp, seed the queue
QueryIncomersGraph(elementId, includeIndirect, argMaxDepth, argMaxNodes) ==
    /\ pc = "idle"
    /\ tool' = "query-incomers-graph"
    /\ args' = [elementId |-> elementId, includeIndirect |-> includeIndirect,
                maxDepth |-> argMaxDepth, maxNodes |-> argMaxNodes]
    /\ IF ~FindElement(elementId)
       THEN /\ pc' = "error"
            /\ error' = "NotFound"
            /\ UNCHANGED <<maxDepth, maxNodes, filter, queue>>
       ELSE /\ pc' = "loop"
            /\ filter' = FilterOf(includeIndirect)
            /\ maxDepth' = GraphMaxDepth(argMaxDepth)
            /\ maxNodes' = GraphMaxNodes(argMaxNodes)
            /\ queue' = <<[elementId |-> elementId, depth |-> 0]>>
            /\ UNCHANGED error
    /\ UNCHANGED <<Rels, foundPaths, visited, nodes, actualMaxDepth, truncated, result>>
    /\ UNCHANGED <<universe, results, idx, examined, calls>>

\* one iteration of while (queue.length > 0), the break included
IncomersIterate ==
    /\ pc = "loop"
    /\ tool = "query-incomers-graph"
    /\ queue # <<>>
    /\ LET elementId == Shift(queue).item.elementId
           depth == Shift(queue).item.depth
           rest == Shift(queue).rest
       IN IF BeyondDepth(depth, maxDepth) \/ elementId \in visited
          THEN /\ queue' = rest
               /\ UNCHANGED <<pc, visited, nodes, actualMaxDepth, truncated, result>>
          ELSE IF NodeLimitReached(visited, maxNodes)
          THEN /\ queue' = rest
               /\ truncated' = TRUE
               /\ pc' = "done"
               /\ result' = GraphResult(args.elementId, visited, actualMaxDepth, TRUE, nodes)
               /\ UNCHANGED <<visited, nodes, actualMaxDepth>>
          ELSE IF ~FindElement(elementId)
          THEN /\ queue' = rest
               /\ UNCHANGED <<pc, visited, nodes, actualMaxDepth, truncated, result>>
          ELSE LET incomersData == IncomersData(elementId, filter)
               IN /\ visited' = visited \cup {elementId}
                  /\ actualMaxDepth' = Max(actualMaxDepth, depth)
                  /\ nodes' = [e \in DOMAIN nodes \cup {elementId} |->
                                 IF e = elementId
                                 THEN [id |-> elementId, incomers |-> incomersData,
                                       depth |-> depth]
                                 ELSE nodes[e]]
                  /\ queue' = PushIncomers(rest, incomersData, visited', depth)
                  /\ UNCHANGED <<pc, truncated, result>>
    /\ UNCHANGED <<Rels, tool, args, maxDepth, maxNodes, filter, foundPaths, error>>
    /\ UNCHANGED <<universe, results, idx, examined, calls>>

\* the queue is empty: return
IncomersReturn ==
    /\ pc = "loop"
    /\ tool = "query-incomers-graph"
    /\ queue = <<>>
    /\ pc' = "done"
    /\ result' = GraphResult(args.elementId, visited, actualMaxDepth, truncated, nodes)
    /\ UNCHANGED <<Rels, tool, args, maxDepth, maxNodes, filter, queue, foundPaths,
                   visited, nodes, actualMaxDepth, truncated, error>>
    /\ UNCHANGED <<universe, results, idx, examined, calls>>

(***************************************************************************)
(* query-graph                                                             *)
(***************************************************************************)
QueryTypes ==
    {"ancestors", "descendants", "siblings", "children", "parent", "incomers", "outgoers"}

\* element.parent, if any
Parent(id) == IF id = "a.b" THEN <<"a">> ELSE Undefined

\* the ids the switch over args.queryType collects
QueryGraphResults(id, queryType, includeIndirect) ==
    CASE queryType = "ancestors" -> Ancestors(id)
      [] queryType = "descendants" -> Descendants(id)
      [] queryType = "siblings" -> {e \in Elements \ {id} : Parent(e) = Parent(id)}
      [] queryType = "children" -> {e \in Elements : Parent(e) = <<id>>}
      [] queryType = "parent" -> {Parent(id)[i] : i \in 1..Len(Parent(id))}
      [] queryType = "incomers" ->
            LET inc == Incoming(id, FilterOf(includeIndirect))
            IN {Rels[inc[i]].source : i \in 1..Len(inc)}
      [] queryType = "outgoers" ->
            LET out == Outgoing(id, FilterOf(includeIndirect))
            IN {Rels[out[i]].target : i \in 1..Len(out)}

\* the whole handler: resolve the element, collect, return
QueryGraph(elementId, queryType, includeIndirect) ==
    /\ pc = "idle"
    /\ tool' = "query-graph"
    /\ args' = [elementId |-> elementId, queryType |-> queryType,
                includeIndirect |-> includeIndirect]
    /\ IF ~FindElement(elementId)
       THEN /\ pc' = "error"
            /\ error' = "NotFound"
            /\ UNCHANGED result
       ELSE /\ pc' = "done"
            /\ result' = [results |-> QueryGraphResults(elementId, queryType, includeIndirect),
                          kind |-> "elements"]
            /\ UNCHANGED error
    /\ UNCHANGED <<Rels, maxDepth, maxNodes, filter, queue, foundPaths, visited, nodes,
                   actualMaxDepth, truncated>>
    /\ UNCHANGED <<universe, results, idx, examined, calls>>

(***************************************************************************)
(* The two traversals as functions of the call's arguments: what a call    *)
(* computes from its own local state when it runs from start to end.       *)
(***************************************************************************)
\* the body of the while loop of find-relationship-paths on local state
PathsBody(q, found, d, targetId) ==
    LET current == Head(q)
    IN IF ReachedMaxDepth(current, d) \/ ~FindElement(current.elementId)
       THEN [queue |-> Tail(q), foundPaths |-> found]
       ELSE ExploreOutgoing(current, Outgoing(current.elementId, "all"),
                            Tail(q), found, targetId)

RECURSIVE PathsLoop(_, _, _, _)
\* while (queue.length > 0 && foundPaths.length < maxPaths)
PathsLoop(q, found, d, targetId) ==
    IF q # <<>> /\ Len(found) < maxPaths
    THEN LET r == PathsBody(q, found, d, targetId)
         IN PathsLoop(r.queue, r.foundPaths, d, targetId)
    ELSE found

\* the queue a call of find-relationship-paths starts with
PathsSeed(sourceId) == <<[elementId |-> sourceId, path |-> <<>>, visited |-> {sourceId}]>>

\* error and result of find-relationship-paths(a)
PathsOutcome(a) ==
    LET v == ValidatePaths(a.sourceId, a.targetId)
    IN IF v # "ok" THEN [error |-> v, result |-> NoResult]
       ELSE [error |-> "none",
             result |-> [paths |-> SortByLength(PathsLoop(PathsSeed(a.sourceId), <<>>,
                                       EffectiveMaxDepth(a.maxDepth), a.targetId)),
                         kind |-> "paths"]]

\* the local state a call of query-incomers-graph starts with
IncomersSeed(elementId) ==
    [queue |-> <<[elementId |-> elementId, depth |-> 0]>>, visited |-> {},
     nodes |-> [e \in {} |-> 0], actualMaxDepth |-> 0, truncated |-> FALSE]

\* the body of the while loop of query-incomers-graph on local state
IncomersBody(s, f, d, n) ==
    LET elementId == Shift(s.queue).item.elementId
        depth == Shift(s.queue).item.depth
        rest == Shift(s.queue).rest
    IN IF BeyondDepth(depth, d) \/ elementId \in s.visited THEN [s EXCEPT !.queue = rest]
       ELSE IF NodeLimitReached(s.visited, n)
       THEN [s EXCEPT !.queue = rest, !.truncated = TRUE]
       ELSE IF ~FindElement(elementId) THEN [s EXCEPT !.queue = rest]
       ELSE LET incomersData == IncomersData(elementId, f)
                v == s.visited \cup {elementId}
            IN [queue |-> PushIncomers(rest, incomersData, v, depth),
                visited |-> v,
                nodes |-> [e \in DOMAIN s.nodes \cup {elementId} |->
                             IF e = elementId
                             THEN [id |-> elementId, incomers |-> incomersData,
                                   depth |-> depth]
                             ELSE s.nodes[e]],
                actualMaxDepth |-> Max(s.actualMaxDepth, depth),
                truncated |-> FALSE]

RECURSIVE IncomersLoop(_, _, _, _)
\* while (queue.length > 0), left by the break when the node limit is hit
IncomersLoop(s, f, d, n) ==
    IF s.queue # <<>> /\ ~s.truncated
    THEN IncomersLoop(IncomersBody(s, f, d, n), f, d, n)
    ELSE s

\* error and result of query-incomers-graph(a)
GraphOutcome(a) ==
    IF ~FindElement(a.elementId) THEN [error |-> "NotFound", result |-> NoResult]
    ELSE LET s == IncomersLoop(IncomersSeed(a.elementId), FilterOf(a.includeIndirect),
                               GraphMaxDepth(a.maxDepth), GraphMaxNodes(a.maxNodes))
         IN [error |-> "none",
             result |-> GraphResult(a.elementId, s.visited, s.actualMaxDepth,
                                    s.truncated, s.nodes)]

(***************************************************************************)
(* Several calls in flight on the same snapshot. Every call owns the       *)
(* queue, visited set and accumulators its handler declares; the calls     *)
(* interleave at loop iterations.                                          *)
(***************************************************************************)
\* number of calls in flight
NumCalls == 2

CallIds == 1..NumCalls

\* snapshots with a cycle, with a chain through a nested element, with
\* parallel relationships, and with two sources of one target
ConcurrentSnapshots ==
    {<<[source |-> "c", target |-> "d"], [source |-> "d", target |-> "c"]>>,
     <<[source |-> "a.b", target |-> "c"], [source |-> "c", target |-> "d"]>>,
     <<[source |-> "c", target |-> "d"], [source |-> "c", target |-> "d"]>>,
     <<[source |-> "a", target |-> "d"], [source |-> "c", target |-> "d"]>>}

\* the calls that may be in flight
ConcurrentCalls ==
    {[tool |-> "find-relationship-paths",
      args |-> [sourceId |-> e[1], targetId |-> e[2], maxDepth |-> Undefined]] :
        e \in {<<"c", "d">>, <<"a", "d">>, <<"d", "c">>}}
    \cup
    {[tool |-> "query-incomers-graph",
      args |-> [elementId |-> e, includeIndirect |-> TRUE, maxDepth |-> 101, maxNodes |-> n]] :
        e \in {"c", "d"}, n \in {1, 5001}}

\* a call slot before its call arrives
IdleCall ==
    [pc |-> "idle", tool |-> "none", args |-> [sourceId |-> UnknownId],
     local |-> [queue |-> <<>>], error |-> "none", result |-> NoResult]

\* mutant: one visited set is shared by all the calls in flight
Local_SharedVisited(c) ==
    IF "visited" \in DOMAIN calls[c].local
    THEN [calls[c].local EXCEPT
            !.visited = UNION {calls[d].local.visited :
                                 d \in {x \in CallIds : "visited" \in DOMAIN calls[x].local}}]
    ELSE calls[c].local

\* the queue, visited set and accumulators declared inside the handler of
\* call c
Local(c) == calls[c].local

\* the call as it stands after the handler's lookups and declarations
Begun(t, a) ==
    IF t = "find-relationship-paths"
    THEN LET v == ValidatePaths(a.sourceId, a.targetId)
         IN IF v # "ok"
            THEN [IdleCall EXCEPT !.pc = "error", !.tool = t, !.args = a, !.error = v]
            ELSE [IdleCall EXCEPT !.pc = "loop", !.tool = t, !.args = a,
                                  !.local = [queue |-> PathsSeed(a.sourceId),
                                             foundPaths |-> <<>>]]
    ELSE IF ~FindElement(a.elementId)
         THEN [IdleCall EXCEPT !.pc = "error", !.tool = t, !.args = a, !.error = "NotFound"]
         ELSE [IdleCall EXCEPT !.pc = "loop", !.tool = t, !.args = a,
                               !.local = IncomersSeed(a.elementId)]

\* the while condition of the call's loop (the break of query-incomers-graph
\* leaves the loop with truncated set)
Continues(t, local) ==
    IF t = "find-relationship-paths"
    THEN local.queue # <<>> /\ Len(local.foundPaths) < maxPaths
    ELSE local.queue # <<>> /\ ~local.truncated

\* a call arrives in slot c
HandlerBegin(c, call) ==
    /\ calls[c].pc = "idle"
    /\ calls' = [calls EXCEPT ![c] = Begun(call.tool, call.args)]
    /\ UNCHANGED <<Rels, pc, tool, args, maxDepth, maxNodes, filter, queue, foundPaths,
                   visited, nodes, actualMaxDepth, truncated, result, error,
                   universe, results, idx, examined>>

\* call c runs one iteration of its loop
HandlerIterate(c) ==
    /\ calls[c].pc = "loop"
    /\ Continues(calls[c].tool, Local(c))
    /\ LET a == calls[c].args
       IN calls' = [calls EXCEPT ![c].local =
                      IF calls[c].tool = "find-relationship-paths"
                      THEN PathsBody(Local(c).queue, Local(c).foundPaths,
                                     EffectiveMaxDepth(a.maxDepth), a.targetId)
                      ELSE IncomersBody(Local(c), FilterOf(a.includeIndirect),
                                        GraphMaxDepth(a.maxDepth), GraphMaxNodes(a.maxNodes))]
    /\ UNCHANGED <<Rels, pc, tool, args, maxDepth, maxNodes, filter, queue, foundPaths,
                   visited, nodes, actualMaxDepth, truncated, result, error,
                   universe, results, idx, examined>>

\* call c has left its loop and returns
HandlerReturn(c) ==
    /\ calls[c].pc = "loop"
    /\ ~Continues(calls[c].tool, Local(c))
    /\ calls' = [calls EXCEPT
                   ![c].pc = "done",
                   ![c].result =
                      IF calls[c].tool = "find-relationship-paths"
                      THEN [paths |-> SortByLength(Local(c).foundPaths), kind |-> "paths"]
                      ELSE GraphResult(calls[c].args.elementId, Local(c).visited,
                                       Local(c).actualMaxDepth, Local(c).truncated,
                                       Local(c).nodes)]
    /\ UNCHANGED <<Rels, pc, tool, args, maxDepth, maxNodes, filter, queue, foundPaths,
                   visited, nodes, actualMaxDepth, truncated, result, error,
                   universe, results, idx, examined>>

(***************************************************************************)
(* The entities the predicate-matching tools iterate: the elements in      *)
(* model order, then the deployment nodes in model order.                  *)
(***************************************************************************)
\* longest element list of the exhaustively enumerated universes
MaxEntities == 2
\* longest deployment-node list of the exhaustively enumerated universes
MaxDeployment == 1
\* longest list a metadata key maps to
MaxValues == 2

\* const limit = 50, in both tools
limit == 50

\* the sequences over S of length at most n
Lists(S, n) == UNION {[1..k -> S] : k \in 0..n}

\* n copies of e
Copies(n, e) == [i \in 1..n |-> e]

Tags == {"public", "api"}

\* strings are sequences of characters; "W" is the upper case of "w"
Strings == {<<>>, <<"w">>, <<"W">>, <<"t", "w">>}

\* a metadata value: a single string, or a non-empty list of strings
MetaValues ==
    {[scalar |-> s] : s \in Strings}
        \cup {[list |-> l] : l \in Lists(Strings, MaxValues) \ {<<>>}}

\* an entity without metadata
NoMetadata == [k \in {} |-> [scalar |-> <<>>]]

TagEntity(t) == [tags |-> t, metadata |-> NoMetadata]

MetaEntity(mv) == [tags |-> {}, metadata |-> [k \in {"owner"} |-> mv]]

\* an entity that carries the tag "public" and the metadata owner = "w"
Popular == [tags |-> {"public"}, metadata |-> [k \in {"owner"} |-> [scalar |-> <<"w">>]]]

NoEntities == [elements |-> <<>>, deployment |-> <<>>]

\* every short list of tagged elements and of tagged deployment nodes
TagUniverses ==
    {[elements |-> e, deployment |-> d] :
        e \in Lists({TagEntity(t) : t \in SUBSET Tags}, MaxEntities),
        d \in Lists({TagEntity(t) : t \in SUBSET Tags}, MaxDeployment)}

\* one entity with any metadata value, as an element or as a deployment node
MetaUniverses ==
    {[elements |-> <<MetaEntity(mv)>>, deployment |-> <<>>] : mv \in MetaValues}
        \cup {[elements |-> <<>>, deployment |-> <<MetaEntity(mv)>>] : mv \in MetaValues}

\* universes around the result cap: limit - 1, limit or limit + 1 matching
\* elements, possibly after one that matches nothing, then 0..2 matching
\* deployment nodes
LargeUniverses ==
    {[elements |-> p \o Copies(n, Popular), deployment |-> Copies(m, Popular)] :
        p \in {<<>>, <<TagEntity({})>>}, n \in {limit - 1, limit, limit + 1}, m \in 0..2}

Universes == TagUniverses \cup MetaUniverses \cup LargeUniverses

\* the value returned by both tools
FilterResult(r) == [results |-> r, kind |-> "results"]

(***************************************************************************)
(* query-by-tags                                                           *)
(***************************************************************************)
\* a tag list a caller supplies: absent, empty, or some tags
TagArgs == {Undefined} \cup {<<t>> : t \in SUBSET Tags}

\* args.x && args.x.length > 0
Given(a) == a # Undefined /\ a[1] # {}

\* mutant: only absent lists are refused, an empty list counts as a condition
ValidateTags_AbsentOnly(allOf, anyOf, noneOf) ==
    IF allOf # Undefined \/ anyOf # Undefined \/ noneOf # Undefined
    THEN "ok" ELSE "InvalidArgument"

\* the invariant at the head of the handler
ValidateTags(allOf, anyOf, noneOf) ==
    IF Given(allOf) \/ Given(anyOf) \/ Given(noneOf) THEN "ok" ELSE "InvalidArgument"

\* mutant: the noneOf test is left out
MatchesTags_NoNoneOf(elementTags, a) ==
    /\ Given(a.allOf) => \A tag \in a.allOf[1] : tag \in elementTags
    /\ Given(a.anyOf) => \E tag \in a.anyOf[1] : tag \in elementTags

\* matchesTags: allOf every, anyOf some, noneOf none, each when non-empty
MatchesTags(elementTags, a) ==
    /\ Given(a.allOf) => \A tag \in a.allOf[1] : tag \in elementTags
    /\ Given(a.anyOf) => \E tag \in a.anyOf[1] : tag \in elementTags
    /\ Given(a.noneOf) => ~(\E tag \in a.noneOf[1] : tag \in elementTags)

\* the entry pushed for entity number i of the elements or deployment nodes
TagsEntry(type, i, e) == [type |-> type, id |-> i, tags |-> e.tags]

\* mutant: the loop runs while results.length <= limit
BelowLimit_OffByOne(r) == Len(r) <= limit

\* the negation of if (results.length >= limit) break
BelowLimit(r) == Len(r) < limit

\* the handler up to the first loop
QueryByTags(allOf, anyOf, noneOf) ==
    /\ pc = "idle"
    /\ tool' = "query-by-tags"
    /\ args' = [allOf |-> allOf, anyOf |-> anyOf, noneOf |-> noneOf]
    /\ LET v == ValidateTags(allOf, anyOf, noneOf)
       IN IF v # "ok"
          THEN /\ pc' = "error"
               /\ error' = v
               /\ UNCHANGED idx
          ELSE /\ pc' = "elements"
               /\ idx' = 1
               /\ UNCHANGED error
    /\ UNCHANGED <<Rels, maxDepth, maxNodes, filter, queue, foundPaths, visited, nodes,
                   actualMaxDepth, truncated, result, universe, results, examined, calls>>

\* one iteration of for (const element of model.elements())
TagsElement ==
    /\ pc = "elements"
    /\ tool = "query-by-tags"
    /\ idx <= Len(universe.elements)
    /\ BelowLimit(results)
    /\ LET element == universe.elements[idx]
       IN /\ examined' = Append(examined, <<"element", idx>>)
          /\ results' = IF MatchesTags(element.tags, args)
                        THEN Append(results, TagsEntry("element", idx, element))
                        ELSE results
    /\ idx' = idx + 1
    /\ UNCHANGED <<Rels, pc, tool, args, maxDepth, maxNodes, filter, queue, foundPaths,
                   visited, nodes, actualMaxDepth, truncated, result, error, universe, calls>>

\* the first loop has ended: if (results.length < limit) enter the second
TagsElementsEnd ==
    /\ pc = "elements"
    /\ tool = "query-by-tags"
    /\ ~(idx <= Len(universe.elements) /\ BelowLimit(results))
    /\ IF Len(results) < limit
       THEN /\ pc' = "deployment"
            /\ idx' = 1
            /\ UNCHANGED result
       ELSE /\ pc' = "done"
            /\ result' = FilterResult(results)
            /\ UNCHANGED idx
    /\ UNCHANGED <<Rels, tool, args, maxDepth, maxNodes, filter, queue, foundPaths, visited,
                   nodes, actualMaxDepth, truncated, error, universe, results, examined, calls>>

\* one iteration of for (const element of model.deployment.elements())
TagsDeployment ==
    /\ pc = "deployment"
    /\ tool = "query-by-tags"
    /\ idx <= Len(universe.deployment)
    /\ BelowLimit(results)
    /\ LET element == universe.deployment[idx]
       IN /\ examined' = Append(examined, <<"deployment", idx>>)
          /\ results' = IF MatchesTags(element.tags, args)
                        THEN Append(results, TagsEntry("deployment", idx, element))
                        ELSE results
    /\ idx' = idx + 1
    /\ UNCHANGED <<Rels, pc, tool, args, maxDepth, maxNodes, filter, queue, foundPaths,
                   visited, nodes, actualMaxDepth, truncated, result, error, universe, calls>>

\* the second loop has ended: return { results }
TagsReturn ==
    /\ pc = "deployment"
    /\ tool = "query-by-tags"
    /\ ~(idx <= Len(universe.deployment) /\ BelowLimit(results))
    /\ pc' = "done"
    /\ result' = FilterResult(results)
    /\ UNCHANGED <<Rels, tool, args, maxDepth, maxNodes, filter, queue, foundPaths, visited,
                   nodes, actualMaxDepth, truncated, error, universe, results, idx, examined,
                   calls>>

(***************************************************************************)
(* query-by-metadata                                                       *)
(***************************************************************************)
Keys == {"owner", "team"}

\* an optional search value
ValueArgs == {Undefined} \cup {<<s>> : s \in Strings}

\* an optional match mode
ModeArgs == {Undefined, <<"exact">>, <<"contains">>, <<"exists">>}

\* args.matchMode ?? 'exact'
MatchMode(a) == IF a = Undefined THEN "exact" ELSE a[1]

\* String.prototype.toLowerCase
ToLowerCase(s) == [i \in 1..Len(s) |-> IF s[i] = "W" THEN "w" ELSE s[i]]

\* String.prototype.includes
Includes(s, sub) ==
    \E i \in 1..(Len(s) + 1) :
        /\ i + Len(sub) - 1 <= Len(s)
        /\ SubSeq(s, i, i + Len(sub) - 1) = sub

\* Array.isArray(metadataValue) ? metadataValue : [metadataValue]
ValuesOf(metadataValue) ==
    IF "list" \in DOMAIN metadataValue THEN metadataValue.list
    ELSE <<metadataValue.scalar>>

\* mutant: contains compares without lower-casing
Satisfies_CaseSensitive(v, searchValue, mode) ==
    CASE mode = "exists" -> TRUE
      [] mode = "exact" -> searchValue # Undefined /\ v = searchValue[1]
      [] mode = "contains" -> searchValue # Undefined /\ Includes(v, searchValue[1])
      [] OTHER -> FALSE

\* the test one list element has to pass in the given mode
Satisfies(v, searchValue, mode) ==
    CASE mode = "exists" -> TRUE
      [] mode = "exact" -> searchValue # Undefined /\ v = searchValue[1]
      [] mode = "contains" ->
            /\ searchValue # Undefined
            /\ Includes(ToLowerCase(v), ToLowerCase(searchValue[1]))
      [] OTHER -> FALSE

\* matches: values.some(...) of the mode, true in mode exists
Matches(metadataValue, searchValue, mode) ==
    LET values == ValuesOf(metadataValue)
    IN IF mode = "exists" THEN TRUE
       ELSE \E i \in 1..Len(values) : Satisfies(values[i], searchValue, mode)

\* values.find(...): the first element that passes, if any
Find(values, searchValue, mode) ==
    LET hits == {i \in 1..Len(values) : Satisfies(values[i], searchValue, mode)}
    IN IF hits = {} THEN Undefined
       ELSE <<values[CHOOSE i \in hits : \A j \in hits : i <= j]>>

\* x || y: y when x is undefined or the empty string
OrElse(x, y) == IF x = Undefined \/ x[1] = <<>> THEN y ELSE x[1]

\* values[0] || ''
FirstOrEmpty(values) == IF values = <<>> THEN <<>> ELSE OrElse(<<values[1]>>, <<>>)

\* getMatchedValue
GetMatchedValue(metadataValue, searchValue, mode) ==
    LET values == ValuesOf(metadataValue)
    IN IF mode = "exists" \/ searchValue = Undefined THEN FirstOrEmpty(values)
       ELSE IF mode \in {"exact", "contains"}
       THEN OrElse(Find(values, searchValue, mode), FirstOrEmpty(values))
       ELSE FirstOrEmpty(values)

\* args.key in metadata, and the value under the key matches
HasMatch(e, a) ==
    /\ a.key \in DOMAIN e.metadata
    /\ Matches(e.metadata[a.key], a.value, MatchMode(a.matchMode))

\* the entry pushed for entity number i of the elements or deployment nodes
MetadataEntry(type, i, e, a) ==
    [type |-> type, id |-> i, metadata |-> e.metadata,
     matchedValue |-> GetMatchedValue(e.metadata[a.key], a.value, MatchMode(a.matchMode))]

\* the handler up to the first loop
QueryByMetadata(key, value, matchMode) ==
    /\ pc = "idle"
    /\ tool' = "query-by-metadata"
    /\ args' = [key |-> key, value |-> value, matchMode |-> matchMode]
    /\ pc' = "elements"
    /\ idx' = 1
    /\ UNCHANGED <<Rels, maxDepth, maxNodes, filter, queue, foundPaths, visited, nodes,
                   actualMaxDepth, truncated, result, error, universe, results, examined,
                   calls>>

\* one iteration of for (const element of model.elements())
MetadataElement ==
    /\ pc = "elements"
    /\ tool = "query-by-metadata"
    /\ idx <= Len(universe.elements)
    /\ BelowLimit(results)
    /\ LET element == universe.elements[idx]
       IN /\ examined' = Append(examined, <<"element", idx>>)
          /\ results' = IF HasMatch(element, args)
                        THEN Append(results, MetadataEntry("element", idx, element, args))
                        ELSE results
    /\ idx' = idx + 1
    /\ UNCHANGED <<Rels, pc, tool, args, maxDepth, maxNodes, filter, queue, foundPaths,
                   visited, nodes, actualMaxDepth, truncated, result, error, universe, calls>>

\* the first loop has ended: if (results.length < limit) enter the second
MetadataElementsEnd ==
    /\ pc = "elements"
    /\ tool = "query-by-metadata"
    /\ ~(idx <= Len(universe.elements) /\ BelowLimit(results))
    /\ IF Len(results) < limit
       THEN /\ pc' = "deployment"
            /\ idx' = 1
            /\ UNCHANGED result
       ELSE /\ pc' = "done"
            /\ result' = FilterResult(results)
            /\ UNCHANGED idx
    /\ UNCHANGED <<Rels, tool, args, maxDepth, maxNodes, filter, queue, foundPaths, visited,
                   nodes, actualMaxDepth, truncated, error, universe, results, examined, calls>>

\* one iteration of for (const element of model.deployment.elements())
MetadataDeployment ==
    /\ pc = "deployment"
    /\ tool = "query-by-metadata"
    /\ idx <= Len(universe.deployment)
    /\ BelowLimit(results)
    /\ LET element == universe.deployment[idx]
       IN /\ examined' = Append(examined, <<"deployment", idx>>)
          /\ results' = IF HasMatch(element, args)
                        THEN Append(results, MetadataEntry("deployment", idx, element, args))
                        ELSE results
    /\ idx' = idx + 1
    /\ UNCHANGED <<Rels, pc, tool, args, maxDepth, maxNodes, filter, queue, foundPaths,
                   visited, nodes, actualMaxDepth, truncated, result, error, universe, calls>>

\* the second loop has ended: return { results }
MetadataReturn ==
    /\ pc = "deployment"
    /\ tool = "query-by-metadata"
    /\ ~(idx <= Len(universe.deployment) /\ BelowLimit(results))
    /\ pc' = "done"
    /\ result' = FilterResult(results)
    /\ UNCHANGED <<Rels, tool, args, maxDepth, maxNodes, filter, queue, foundPaths, visited,
                   nodes, actualMaxDepth, truncated, error, universe, results, idx, examined,
                   calls>>

(***************************************************************************)
(* The specifications: a snapshot, then one tool call on it.               *)
(***************************************************************************)
\* no call has been made yet
NoCall ==
    /\ pc = "idle"
    /\ tool = "none"
    /\ args = [sourceId |-> UnknownId]
    /\ maxDepth = 0
    /\ maxNodes = 0
    /\ filter = "all"
    /\ queue = <<>>
    /\ foundPaths = <<>>
    /\ visited = {}
    /\ nodes = [e \in {} |-> 0]
    /\ actualMaxDepth = 0
    /\ truncated = FALSE
    /\ result = NoResult
    /\ error = "none"
    /\ results = <<>>
    /\ idx = 0
    /\ examined = <<>>

InitPaths ==
    /\ Rels \in Snapshots \cup {Fan(FanSize)}
    /\ universe = NoEntities
    /\ NoCall
    /\ calls = <<>>

NextPaths ==
    \/ \E s \in Ids, t \in Ids, d \in PathDepthArgs : FindRelationshipPaths(s, t, d)
    \/ PathsIterate
    \/ PathsReturn

\* a call of find-relationship-paths on any snapshot
SpecPaths == InitPaths /\ [][NextPaths]_vars

InitGraph ==
    /\ Rels \in Snapshots
    /\ universe = NoEntities
    /\ NoCall
    /\ calls = <<>>

NextGraph ==
    \/ \E e \in Ids, i \in BOOLEAN, d \in GraphDepthArgs, n \in GraphNodesArgs :
          QueryIncomersGraph(e, i, d, n)
    \/ IncomersIterate
    \/ IncomersReturn

\* a call of query-incomers-graph on any snapshot
SpecGraph == InitGraph /\ [][NextGraph]_vars

InitFilters ==
    /\ Rels = <<>>
    /\ universe \in Universes
    /\ NoCall
    /\ calls = <<>>

NextFilters ==
    \/ \E allOf \in TagArgs, anyOf \in TagArgs, noneOf \in TagArgs :
          QueryByTags(allOf, anyOf, noneOf)
    \/ TagsElement
    \/ TagsElementsEnd
    \/ TagsDeployment
    \/ TagsReturn
    \/ \E key \in Keys, value \in ValueArgs, matchMode \in ModeArgs :
          QueryByMetadata(key, value, matchMode)
    \/ MetadataElement
    \/ MetadataElementsEnd
    \/ MetadataDeployment
    \/ MetadataReturn

\* a call of query-by-tags or query-by-metadata on any universe
SpecFilters == InitFilters /\ [][NextFilters]_vars

InitTools ==
    /\ Rels \in SmallSnapshots
    /\ universe = NoEntities
    /\ NoCall
    /\ calls = <<>>

NextTools ==
    \/ \E s \in Ids, t \in Ids, d \in PathDepthInputs : FindRelationshipPaths(s, t, d)
    \/ PathsIterate
    \/ PathsReturn
    \/ \E e \in Ids, i \in BOOLEAN, d \in GraphDepthInputs, n \in GraphNodesInputs :
          QueryIncomersGraph(e, i, d, n)
    \/ IncomersIterate
    \/ IncomersReturn
    \/ \E e \in Ids, q \in QueryTypes, i \in BOOLEAN : QueryGraph(e, q, i)

\* a call of any of the three graph tools, with arguments of any size
SpecTools == InitTools /\ [][NextTools]_vars

InitLoops ==
    /\ Rels \in LoopySnapshots
    /\ universe = NoEntities
    /\ NoCall
    /\ calls = <<>>

\* the loosest limits: the traversals run as long as they ever do
NextLoops ==
    \/ \E s \in Elements, t \in Elements : FindRelationshipPaths(s, t, <<6>>)
    \/ PathsIterate
    \/ PathsReturn
    \/ \E e \in Elements, i \in BOOLEAN : QueryIncomersGraph(e, i, 101, 5001)
    \/ IncomersIterate
    \/ IncomersReturn

\* a handler that has started runs to completion: no loop iteration and no
\* return that can be taken is put off forever
LoopsRun ==
    /\ WF_vars(PathsIterate)
    /\ WF_vars(PathsReturn)
    /\ WF_vars(IncomersIterate)
    /\ WF_vars(IncomersReturn)

\* a traversal call on any snapshot, cycles and self-loops included, run
\* to completion
SpecLoops == InitLoops /\ [][NextLoops]_vars /\ LoopsRun

InitConcurrent ==
    /\ Rels \in ConcurrentSnapshots
    /\ universe = NoEntities
    /\ NoCall
    /\ calls = [c \in CallIds |-> IdleCall]

NextConcurrent ==
    \/ \E c \in CallIds, call \in ConcurrentCalls : HandlerBegin(c, call)
    \/ \E c \in CallIds : HandlerIterate(c)
    \/ \E c \in CallIds : HandlerReturn(c)

\* NumCalls traversal calls in flight on one snapshot, interleaved at will
SpecConcurrent == InitConcurrent /\ [][NextConcurrent]_vars

TypeOK ==
    /\ pc \in {"idle", "loop", "elements", "deployment", "done", "error"}
    /\ error \in {"none", "NotFound", "InvalidArgument"}
    /\ truncated \in BOOLEAN

(***************************************************************************)
(* Reference notions the properties are stated with.                       *)
(***************************************************************************)
PathsDone == pc = "done" /\ result.kind = "paths"

GraphDone == pc = "done" /\ result.kind = "graph"

\* the elements of a sequence
Range(s) == {s[i] : i \in 1..Len(s)}

\* the relationships a returned path follows, in order
RelsOf(p) == [i \in 1..Len(p.steps) |-> p.steps[i].rel]

\* the query's source followed by the targets of the path's steps
EntitiesOn(p) == <<args.sourceId>> \o [i \in 1..Len(p.steps) |-> p.steps[i].target]

NoRepeat(s) == \A i, j \in 1..Len(s) : i # j => s[i] # s[j]

RECURSIVE SimplePathsFrom(_, _, _, _)
\* the relationship sequences of at most k hops that lead from node to
\* targetId over outgoing relationships, enter no element of seen and no
\* element twice, and meet targetId at their last hop only
SimplePathsFrom(node, seen, targetId, k) ==
    IF k = 0 THEN {}
    ELSE UNION {
           IF Rels[r].target = targetId THEN {<<r>>}
           ELSE IF Rels[r].target \in seen THEN {}
           ELSE {<<r>> \o q :
                   q \in SimplePathsFrom(Rels[r].target, seen \cup {Rels[r].target},
                                         targetId, k - 1)}
           : r \in Range(Outgoing(node, "all"))}

\* the rank of path p in the order of discovery
Discovered(p) == CHOOSE k \in 1..Len(foundPaths) : foundPaths[k] = p

\* the maxDepth the caller asked for: the argument, 3 when omitted, 5 at most
AskedDepth == IF args.maxDepth = Undefined THEN 3
              ELSE IF args.maxDepth[1] > 5 THEN 5 ELSE args.maxDepth[1]

\* every valid path of the query in progress
AllPaths == SimplePathsFrom(args.sourceId, {args.sourceId}, args.targetId, AskedDepth)

\* the sources of the relationships that enter e under filter f
IncomersOf(e, f) == {Rels[i].source : i \in Range(Incoming(e, f))}

RECURSIVE ReachWithin(_, _, _)
\* the elements at most k hops upstream of start
ReachWithin(start, f, k) ==
    IF k = 0 THEN {start}
    ELSE LET R == ReachWithin(start, f, k - 1)
         IN R \cup UNION {IncomersOf(e, f) : e \in R}

\* the least number of hops from start up to e
HopCount(start, f, e) ==
    CHOOSE k \in 0..Cardinality(Elements) :
        /\ e \in ReachWithin(start, f, k)
        /\ k > 0 => e \notin ReachWithin(start, f, k - 1)

\* the limits the caller asked for
AskedGraphDepth == IF args.maxDepth > 100 THEN 100 ELSE args.maxDepth

AskedNodes == IF args.maxNodes > 5000 THEN 5000 ELSE args.maxNodes

AskedFilter == IF args.includeIndirect THEN "all" ELSE "direct"

\* the closure of the start entity within the depth bound
Closure ==
    ReachWithin(args.elementId, AskedFilter,
                IF AskedGraphDepth > Cardinality(Elements)
                THEN Cardinality(Elements) ELSE AskedGraphDepth)

(***************************************************************************)
(* C1: find-relationship-paths never returns more than 100 paths, and      *)
(* returns exactly 100 when the model offers more than 100 valid paths.    *)
(* The code tests the cap only between two queue entries, so one element   *)
(* with more than 100 relationships to the target breaks it.               *)
(***************************************************************************)
C1_AtMost100Paths ==
    PathsDone =>
        /\ Len(result.paths) <= 100
        /\ Cardinality(AllPaths) > 100 => Len(result.paths) = 100

(***************************************************************************)
(* C2: when fewer than 100 paths exist, the result is exactly the set of   *)
(* simple directed paths from source to target over outgoing               *)
(* relationships with at most maxDepth hops that meet the target at the    *)
(* last hop only, each returned once; for a -> c -> d, maxDepth 3 gives    *)
(* the one path [a->c, c->d] and maxDepth 1 gives the empty list.          *)
(***************************************************************************)
C2_ExactlySimplePaths ==
    PathsDone =>
        /\ Cardinality(AllPaths) < 100 =>
              /\ {RelsOf(result.paths[i]) : i \in 1..Len(result.paths)} = AllPaths
              /\ Len(result.paths) = Cardinality(AllPaths)
        /\ ( /\ Rels = <<[source |-> "a", target |-> "c"], [source |-> "c", target |-> "d"]>>
             /\ args.sourceId = "a"
             /\ args.targetId = "d" ) =>
              /\ args.maxDepth = Undefined =>
                    result.paths =
                      <<[length |-> 2,
                         steps |-> <<[source |-> "a", target |-> "c", rel |-> 1],
                                     [source |-> "c", target |-> "d", rel |-> 2]>>]>>
              /\ args.maxDepth = <<1>> => result.paths = <<>>

\* a result that holds a direct path and a two-hop path
C2_Witness ==
    /\ PathsDone
    /\ Cardinality(AllPaths) < 100
    /\ \E i, j \in 1..Len(result.paths) :
          result.paths[i].length = 1 /\ result.paths[j].length = 2

(***************************************************************************)
(* C3: every returned path has steps.length = length and                   *)
(* 1 <= length <= the supplied maxDepth capped at 5.                       *)
(***************************************************************************)
C3_LengthWithinDepth ==
    PathsDone =>
        \A i \in 1..Len(result.paths) :
            LET p == result.paths[i]
            IN /\ Len(p.steps) = p.length
               /\ 1 <= p.length
               /\ p.length <= AskedDepth

\* a path as long as the depth allows while a longer route to the target exists
C3_Witness ==
    /\ PathsDone
    /\ args.maxDepth = <<1>>
    /\ Len(result.paths) = 1
    /\ \E r \in 1..Len(Rels) :
          Rels[r].source # args.sourceId /\ Rels[r].target = args.targetId

(***************************************************************************)
(* C4: every returned path is cycle-free: no entity id repeats among the   *)
(* query's source id and the target ids of the path's steps; the same      *)
(* element may still lie on several returned paths.                        *)
(***************************************************************************)
C4_CycleFree ==
    PathsDone => \A i \in 1..Len(result.paths) : NoRepeat(EntitiesOn(result.paths[i]))

\* a returned two-hop path whose intermediate element also has a
\* relationship back to the source: that branch was dropped
C4_Witness ==
    /\ PathsDone
    /\ \E i \in 1..Len(result.paths) :
          /\ result.paths[i].length = 2
          /\ \E r \in 1..Len(Rels) :
                /\ Rels[r].source = result.paths[i].steps[1].target
                /\ Rels[r].target = args.sourceId

(***************************************************************************)
(* C5: the returned list is sorted non-decreasingly by length, and paths   *)
(* of equal length keep the order in which the search discovered them.     *)
(***************************************************************************)
C5_SortedStable ==
    PathsDone =>
        \A i, j \in 1..Len(result.paths) :
            i < j =>
              /\ result.paths[i].length <= result.paths[j].length
              /\ result.paths[i].length = result.paths[j].length =>
                    Discovered(result.paths[i]) < Discovered(result.paths[j])

\* a result with two different paths of one length
C5_Witness ==
    /\ PathsDone
    /\ Len(result.paths) = 2
    /\ result.paths[1].length = result.paths[2].length
    /\ result.paths[1] # result.paths[2]

(***************************************************************************)
(* C6: find-relationship-paths fails with InvalidArgument, with no         *)
(* traversal step and no path returned, whenever sourceId equals targetId  *)
(* or one of source/target is an ancestor of the other.  As stated it      *)
(* fails for two equal ids that do not resolve: the lookup comes first     *)
(* and the call fails with NotFound.                                       *)
(***************************************************************************)
PathsCalled == tool = "find-relationship-paths"

SameOrRelated ==
    \/ args.sourceId = args.targetId
    \/ args.sourceId \in Ancestors(args.targetId)
    \/ args.targetId \in Ancestors(args.sourceId)

\* the call has failed before the search: nothing queued, found or returned
NoTraversal ==
    /\ pc = "error"
    /\ queue = <<>>
    /\ foundPaths = <<>>
    /\ result = NoResult
    /\ ~ENABLED PathsIterate
    /\ ~ENABLED PathsReturn

C6_Original ==
    (PathsCalled /\ SameOrRelated) => (error = "InvalidArgument" /\ NoTraversal)

\* C6 as amended: the same, for source and target ids that both resolve
C6_InvalidArgument ==
    (PathsCalled /\ SameOrRelated /\ FindElement(args.sourceId) /\ FindElement(args.targetId))
        => (error = "InvalidArgument" /\ NoTraversal)

\* a rejected call whose target is the parent of its source, in a snapshot
\* where a relationship leaves the source
C6_Witness ==
    /\ PathsCalled
    /\ args.targetId \in Ancestors(args.sourceId)
    /\ error = "InvalidArgument"
    /\ \E r \in 1..Len(Rels) : Rels[r].source = args.sourceId

(***************************************************************************)
(* C7: totalNodes <= maxNodes in every query-incomers-graph result, and    *)
(* when the closure of the start entity (what is reachable within the      *)
(* depth bound) holds more than maxNodes entities, truncated is true and   *)
(* totalNodes = maxNodes: the entity that hits the limit is not added.     *)
(***************************************************************************)
C7_NodeLimit ==
    GraphDone =>
        /\ result.totalNodes <= AskedNodes
        /\ result.totalNodes = Cardinality(DOMAIN result.nodes)
        /\ Cardinality(Closure) > AskedNodes =>
              (result.truncated /\ result.totalNodes = AskedNodes)

\* a truncated result of three nodes
C7_Witness ==
    /\ GraphDone
    /\ result.truncated
    /\ result.totalNodes = 3
    /\ Cardinality(Closure) > 3

(***************************************************************************)
(* C8: the depth recorded for every emitted node is the least number of    *)
(* hops from the start entity to it along incoming relationships under     *)
(* the chosen filter, also with cycles and routes of different lengths.    *)
(***************************************************************************)
C8_ShortestDepth ==
    GraphDone =>
        \A e \in DOMAIN result.nodes :
            result.nodes[e].depth = HopCount(args.elementId, AskedFilter, e)

\* a node at depth 1 that is also an incomer of another node at depth 1: it is
\* reached by one hop and by two
C8_Witness ==
    /\ GraphDone
    /\ \E e, m \in DOMAIN result.nodes :
          /\ e # m
          /\ result.nodes[e].depth = 1
          /\ result.nodes[m].depth = 1
          /\ e \in Range(result.nodes[m].incomers)

(***************************************************************************)
(* C9: a truncated result holds the first maxNodes entities of the         *)
(* breadth-first order: no entity is emitted while an entity of the        *)
(* closure with a strictly smaller hop count is left out.                  *)
(***************************************************************************)
C9_ShallowestFirst ==
    (GraphDone /\ result.truncated) =>
        /\ Cardinality(DOMAIN result.nodes) = AskedNodes
        /\ DOMAIN result.nodes \subseteq Closure
        /\ \A e \in DOMAIN result.nodes : \A x \in Closure \ DOMAIN result.nodes :
              HopCount(args.elementId, AskedFilter, x)
                  >= HopCount(args.elementId, AskedFilter, e)

\* a truncated result that holds one entity two hops away and leaves out
\* another one two hops away
C9_Witness ==
    /\ GraphDone
    /\ result.truncated
    /\ \E x \in Closure \ DOMAIN result.nodes :
          HopCount(args.elementId, AskedFilter, x) = 2
    /\ \E e \in DOMAIN result.nodes : result.nodes[e].depth = 2

(***************************************************************************)
(* C10: every successful query-incomers-graph result holds the start       *)
(* entity in nodes with depth 0, whatever maxDepth, maxNodes and graph.    *)
(***************************************************************************)
C10_StartAtDepth0 ==
    GraphDone =>
        /\ args.elementId \in DOMAIN result.nodes
        /\ result.nodes[args.elementId].depth = 0

\* the tightest limits: one node, one level, with incomers left out
C10_Witness ==
    /\ GraphDone
    /\ args.maxNodes = 1
    /\ args.maxDepth = 1
    /\ result.truncated
    /\ result.totalNodes = 1

(***************************************************************************)
(* Reference notions for the predicate-matching tools.                     *)
(***************************************************************************)
FilterDone == pc = "done" /\ result.kind = "results"

\* the entities in the order the tools iterate them
Order ==
    [i \in 1..Len(universe.elements) |-> <<"element", i>>]
        \o [i \in 1..Len(universe.deployment) |-> <<"deployment", i>>]

EntityAt(ref) ==
    IF ref[1] = "element" THEN universe.elements[ref[2]] ELSE universe.deployment[ref[2]]

\* the entity a result entry stands for
RefOf(r) == <<r.type, r.id>>

\* the entities of the returned results, in order
ReturnedRefs == [i \in 1..Len(result.results) |-> RefOf(result.results[i])]

\* the tags of an optional tag list
AskedTags(a) == IF a = Undefined THEN {} ELSE a[1]

\* the three tag conditions, each applied only when its list is non-empty
TagsSatisfied(tags) ==
    /\ AskedTags(args.allOf) # {} => AskedTags(args.allOf) \subseteq tags
    /\ AskedTags(args.anyOf) # {} => AskedTags(args.anyOf) \cap tags # {}
    /\ AskedTags(args.noneOf) # {} => AskedTags(args.noneOf) \cap tags = {}

\* the same character, upper case folded to lower case
Fold(c) == IF c = "W" THEN "w" ELSE c

\* s occurs in v as a contiguous run of characters, case ignored
OccursIgnoringCase(v, s) ==
    \E start \in 0..Len(v) :
        /\ start + Len(s) <= Len(v)
        /\ \A k \in 1..Len(s) : Fold(v[start + k]) = Fold(s[k])

\* the mode the call runs in: exact unless another one was asked for
AskedMode == IF args.matchMode = Undefined THEN "exact" ELSE args.matchMode[1]

\* the test of the asked mode on one element of the value list
PassesMode(v) ==
    CASE AskedMode = "exists" -> TRUE
      [] AskedMode = "exact" -> args.value # Undefined /\ v = args.value[1]
      [] AskedMode = "contains" ->
            args.value # Undefined /\ OccursIgnoringCase(v, args.value[1])

\* the list under the asked key: a single value counts as a list of one
ListOf(e) ==
    LET mv == e.metadata[args.key]
    IN IF "list" \in DOMAIN mv THEN mv.list ELSE <<mv.scalar>>

\* the entity has the key and, unless the mode is exists, some element of
\* its list passes the mode's test
MetadataSatisfied(e) ==
    /\ args.key \in DOMAIN e.metadata
    /\ \/ AskedMode = "exists"
       \/ \E i \in 1..Len(ListOf(e)) : PassesMode(ListOf(e)[i])

\* the entity satisfies the predicate of the running tool
IsMatch(ref) ==
    IF tool = "query-by-tags" THEN TagsSatisfied(EntityAt(ref).tags)
    ELSE MetadataSatisfied(EntityAt(ref))

\* the matching entities, in iteration order
MatchesInOrder == SelectSeq(Order, IsMatch)

\* the position of an entity in the iteration order
PositionOf(ref) ==
    IF ref[1] = "element" THEN ref[2] ELSE Len(universe.elements) + ref[2]

\* the position in the iteration order of the match that fills the cap
\* (0 when there are fewer matches than the cap)
PositionOfLast ==
    LET m == MatchesInOrder IN IF Len(m) >= limit THEN PositionOf(m[limit]) ELSE 0

(***************************************************************************)
(* C12: query-by-tags returns an entity only if its tags hold every tag of *)
(* a non-empty allOf, some tag of a non-empty anyOf and no tag of a        *)
(* non-empty noneOf; when fewer than 50 entities satisfy this, all of them *)
(* are returned; a tag in both allOf and noneOf yields no match.           *)
(***************************************************************************)
C12_TagConditions ==
    (FilterDone /\ tool = "query-by-tags") =>
        /\ \A i \in 1..Len(ReturnedRefs) : TagsSatisfied(EntityAt(ReturnedRefs[i]).tags)
        /\ Len(MatchesInOrder) < limit => Range(ReturnedRefs) = Range(MatchesInOrder)
        /\ AskedTags(args.allOf) \cap AskedTags(args.noneOf) # {} => result.results = <<>>

\* all three conditions given; one entity is returned, another is left out
\* because it carries a noneOf tag
C12_Witness ==
    /\ FilterDone
    /\ tool = "query-by-tags"
    /\ AskedTags(args.allOf) # {}
    /\ AskedTags(args.anyOf) # {}
    /\ AskedTags(args.noneOf) # {}
    /\ result.results # <<>>
    /\ \E i \in 1..Len(Order) :
          /\ AskedTags(args.allOf) \subseteq EntityAt(Order[i]).tags
          /\ AskedTags(args.noneOf) \cap EntityAt(Order[i]).tags # {}

(***************************************************************************)
(* C13: with allOf, anyOf and noneOf all absent or empty, query-by-tags    *)
(* fails with InvalidArgument, returns no results and examines no entity.  *)
(***************************************************************************)
C13_NoCondition ==
    (/\ tool = "query-by-tags"
     /\ AskedTags(args.allOf) = {}
     /\ AskedTags(args.anyOf) = {}
     /\ AskedTags(args.noneOf) = {}) =>
        /\ pc = "error"
        /\ error = "InvalidArgument"
        /\ result = NoResult
        /\ results = <<>>
        /\ examined = <<>>

\* an empty list and absent lists, on a universe that has entities
C13_Witness ==
    /\ tool = "query-by-tags"
    /\ pc = "error"
    /\ args.allOf = <<{}>>
    /\ args.anyOf = Undefined
    /\ args.noneOf = Undefined
    /\ universe.elements # <<>>

C15_FirstMatching ==
    (FilterDone /\ tool = "query-by-metadata") =>
        \A i \in 1..Len(result.results) :
            LET list == ListOf(EntityAt(ReturnedRefs[i]))
                first == CHOOSE k \in 1..Len(list) :
                            /\ PassesMode(list[k])
                            /\ \A j \in 1..(k - 1) : ~PassesMode(list[j])
            IN result.results[i].matchedValue = list[first]

(***************************************************************************)
(* C16: both predicate-matching tools return at most 50 results, the first *)
(* 50 matches of the elements in model order followed by the deployment    *)
(* nodes in model order; no entity after the 50th match is examined, and   *)
(* no deployment node when the elements alone supply 50 matches.           *)
(***************************************************************************)
C16_First50 ==
    /\ tool \in {"query-by-tags", "query-by-metadata"} =>
          LET last == PositionOfLast
          IN last > 0 => \A i \in 1..Len(examined) : PositionOf(examined[i]) <= last
    /\ FilterDone =>
          LET m == MatchesInOrder
          IN /\ Len(result.results) <= limit
             /\ ReturnedRefs = SubSeq(m, 1, Min(limit, Len(m)))
             /\ (Len(m) >= limit /\ m[limit][1] = "element")
                   => \A i \in 1..Len(examined) : examined[i][1] # "deployment"

\* 51 matching elements after one that does not match, and deployment
\* nodes that match too: 50 results, the 51st match never examined
C16_Witness ==
    /\ FilterDone
    /\ Len(result.results) = limit
    /\ Len(universe.elements) = limit + 2
    /\ universe.deployment # <<>>
    /\ Len(MatchesInOrder) > limit + 1
    /\ Len(examined) = limit + 1

(***************************************************************************)
(* Reference notions for the argument handling of the traversal tools.     *)
(***************************************************************************)
\* the call has ended, with a result or with an error
Ended == pc \in {"done", "error"}

\* what the ended call yielded
Outcome == [error |-> error, result |-> result]

\* the value of lo..hi nearest to x
Nearest(x, lo, hi) == IF x < lo THEN lo ELSE IF x > hi THEN hi ELSE x

\* the maxDepth asked of find-relationship-paths, 3 when omitted
AskedPathDepth == IF args.maxDepth = Undefined THEN 3 ELSE args.maxDepth[1]

C17_NotFound ==
    LET supplied ==
            IF tool = "find-relationship-paths" THEN {args.sourceId, args.targetId}
            ELSE IF tool \in {"query-incomers-graph", "query-graph"} THEN {args.elementId}
            ELSE {}
    IN (\E id \in supplied : id \notin Elements) =>
          /\ pc = "error"
          /\ error = "NotFound"
          /\ result = NoResult
          /\ queue = <<>>
          /\ foundPaths = <<>>
          /\ visited = {}
          /\ DOMAIN nodes = {}

\* the source resolves and has outgoing relationships, the target does not
C17_Witness ==
    /\ tool = "find-relationship-paths"
    /\ pc = "error"
    /\ args.sourceId \in Elements
    /\ args.targetId \notin Elements
    /\ Outgoing(args.sourceId, "all") # <<>>

(***************************************************************************)
(* C18: both traversals terminate on every finite model, whether its       *)
(* relationship graph has cycles, self-loops or parallel relationships:    *)
(* a call that has entered its loop returns its result.                    *)
(***************************************************************************)
C18_Terminates == (pc = "loop") ~> (pc = "done")

\* a closure computed through a self-loop on the start element and a
\* relationship from its own descendant or from another element
C18_Witness ==
    /\ GraphDone
    /\ Len(Rels) > 1
    /\ \E i \in 1..Len(Rels) :
          Rels[i].source = args.elementId /\ Rels[i].target = args.elementId
    /\ result.totalNodes > 1

(***************************************************************************)
(* C19: calls in flight on the same snapshot do not disturb one another:   *)
(* under every interleaving of their steps, a step changes the queue,      *)
(* visited set and accumulators of one call only, the snapshot is never    *)
(* written, and every call yields what it yields when it runs alone.       *)
(***************************************************************************)
C19_Isolated ==
    /\ [](\A c \in DOMAIN calls :
            calls[c].pc \in {"done", "error"} =>
                [error |-> calls[c].error, result |-> calls[c].result]
                    = (IF calls[c].tool = "find-relationship-paths"
                       THEN PathsOutcome(calls[c].args)
                       ELSE GraphOutcome(calls[c].args)))
    /\ [][/\ Rels' = Rels
          /\ \E c \in DOMAIN calls :
                \A d \in DOMAIN calls \ {c} : calls'[d] = calls[d]]_vars

\* two closure calls from different start elements, both ended, that have
\* visited a common entity
C19_Witness ==
    /\ DOMAIN calls # {}
    /\ \E c, d \in DOMAIN calls :
          /\ c # d
          /\ calls[c].pc = "done" /\ calls[d].pc = "done"
          /\ calls[c].tool = "query-incomers-graph"
          /\ calls[d].tool = "query-incomers-graph"
          /\ calls[c].args.elementId # calls[d].args.elementId
          /\ DOMAIN calls[c].result.nodes \cap DOMAIN calls[d].result.nodes # {}

(***************************************************************************)
(* C20: query-incomers-graph reports no false truncation: truncated is     *)
(* true only if some entity reachable within the effective maxDepth is     *)
(* missing from nodes; when the depth-bounded closure has at most maxNodes *)
(* entities (exactly maxNodes included), truncated is false and the whole  *)
(* closure is emitted, whatever duplicate or too-deep entries the queue    *)
(* still holds when the count is reached.                                  *)
(***************************************************************************)
C20_NoFalseTruncation ==
    GraphDone =>
        /\ result.truncated => Closure \ DOMAIN result.nodes # {}
        /\ Cardinality(Closure) <= AskedNodes =>
              /\ ~result.truncated
              /\ DOMAIN result.nodes = Closure

\* the closure fills maxNodes = 3 exactly, and one of its entities was
\* enqueued twice or an entity beyond the depth limit was enqueued
C20_Witness ==
    /\ GraphDone
    /\ ~result.truncated
    /\ args.maxNodes = 3
    /\ result.totalNodes = 3
    /\ \/ \E e \in DOMAIN result.nodes :
             \E x, y \in DOMAIN result.nodes :
                /\ x # y
                /\ e \in Range(result.nodes[x].incomers)
                /\ e \in Range(result.nodes[y].incomers)
       \/ \E x \in DOMAIN result.nodes :
             Range(result.nodes[x].incomers) \ DOMAIN result.nodes # {}

(***************************************************************************)
(* C21: every path returned by find-relationship-paths is a connected      *)
(* chain: the first step's source is the queried sourceId, each step's     *)
(* target is the next step's source, and the last step's target is the     *)
(* queried targetId, also when outgoing() yields relationships whose       *)
(* literal source is a descendant of the element being expanded.           *)
(***************************************************************************)
C21_ConnectedChain ==
    PathsDone =>
        \A i \in 1..Len(result.paths) :
            LET steps == result.paths[i].steps
            IN /\ steps[1].source = args.sourceId
               /\ \A k \in 1..(Len(steps) - 1) : steps[k].target = steps[k + 1].source
               /\ steps[Len(steps)].target = args.targetId
====
